---------------------------- MODULE Spec2Model ----------------------------
(***************************************************************************)
(* The query-intent pipeline of MEDICO_AI_PRO (src/utils/llm_handler.py):  *)
(* classify -> build context -> synthesize SQL -> sanitize -> execute ->   *)
(* narrate -> Response, with the storage layer (src/utils/database.py) and *)
(* the language model as external capabilities whose outcomes are chosen   *)
(* nondeterministically.                                                   *)
(*                                                                         *)
(* A text is a sequence of strings: single characters where the code looks *)
(* at characters (lower(), upper(), strip(), regular expressions,          *)
(* substring tests), and whole literal pieces of the f-string templates    *)
(* where it does not.  None is <<>> and a present value v is <<v>>.        *)
(*                                                                         *)
(* Specifications: Spec (one invocation), SpecClassify, SpecSanitize and   *)
(* SpecVisualize (classify_query, clean_sql_query and should_visualize on  *)
(* their own), SpecChat (the chat page of src/components/chat.py around    *)
(* the pipeline) and SpecConcurrent (two invocations side by side).        *)
(***************************************************************************)
EXTENDS Naturals, Sequences, FiniteSets

VARIABLES
    pc,              \* position of the invocation in process_natural_language_query
    question,        \* the query argument (text)
    processed_data,  \* the processed_data argument: list of [table, dataframe]
    query_type,      \* local query_type
    data_context,    \* local data_context
    raw_sql,         \* response.text.strip() of the synthesis model call
    sql_query,       \* local sql_query: what clean_sql_query returned, <<>> before
    results,         \* local results: <<>> before execute returned, else <<df>>
    error,           \* str(e) of the exception caught at llm_handler.py:87
    response,        \* the dict returned to the caller: <<>> until returned
    raised,          \* the exception that left the function: <<>> or <<message>>
    model_calls,     \* log of self.model.generate_content calls ("sql"/"narrate")
    execute_calls,   \* log of the SQL texts handed to db_manager.execute_query
    model_outcomes,  \* how each call of model_calls ended ("ok"/"failed")
    storage,         \* the dataset tables of the SQLite file: table -> rows
    session_state,   \* st.session_state of the chat page
    user_input,      \* what st.chat_input returned in this run of the script
    submitted,       \* log of the questions the user typed or clicked
    invocations,     \* log of the questions handed to the pipeline by the page
    returned,        \* value returned by a function called on its own
    instances,       \* the locals of each of the invocations running side by side
    capabilities,    \* what the model answers to each prompt of these invocations
    uploaded_files,  \* the files handle_file_upload has still to go through
    log_calls        \* the calls of log_query: arguments, and whether the row was written

\* what one invocation of process_natural_language_query never touches
outside_vars == <<session_state, user_input, submitted, invocations, returned,
                  instances, capabilities, uploaded_files, log_calls>>

vars == <<pc, question, processed_data, query_type, data_context, raw_sql,
          sql_query, results, error, response, raised, model_calls,
          execute_calls, model_outcomes, storage, outside_vars>>

-----------------------------------------------------------------------------
(* Bounds of the model *)

MaxQuestionLexemes == 3
MaxRawLexemes == 3
MaxDatasets == 2
MaxRows == 4
MaxResultRows == 2
MaxResultCols == 2
MaxNarrationLen == 2
MaxVizRows == 5
MaxHandledInputs == 3
MaxUploads == 2
MaxExecutes == 2

-----------------------------------------------------------------------------
(* Characters and the string methods the code uses *)

None == <<>>
Some(v) == <<v>>

Lowers == <<"a","b","c","d","e","f","g","h","i","j","k","l","m",
            "n","o","p","q","r","s","t","u","v","w","x","y","z">>
Uppers == <<"A","B","C","D","E","F","G","H","I","J","K","L","M",
            "N","O","P","Q","R","S","T","U","V","W","X","Y","Z">>
Digits == {"0","1","2","3","4","5","6","7","8","9"}
Whitespace == {" ", "\n", "\t"}

Range(s) == {s[i] : i \in DOMAIN s}

UpperChar(c) ==
    IF \E i \in DOMAIN Lowers : Lowers[i] = c
    THEN Uppers[CHOOSE i \in DOMAIN Lowers : Lowers[i] = c]
    ELSE c

LowerChar(c) ==
    IF \E i \in DOMAIN Uppers : Uppers[i] = c
    THEN Lowers[CHOOSE i \in DOMAIN Uppers : Uppers[i] = c]
    ELSE c

\* str.upper() and str.lower()
Upper(t) == [i \in DOMAIN t |-> UpperChar(t[i])]
Lower(t) == [i \in DOMAIN t |-> LowerChar(t[i])]

\* str.startswith(p)
StartsWith(t, p) == Len(t) >= Len(p) /\ SubSeq(t, 1, Len(p)) = p

\* p in t
Contains(t, p) ==
    \/ p = <<>>
    \/ \E i \in DOMAIN t :
        /\ t[i] = p[1]
        /\ i + Len(p) - 1 <= Len(t)
        /\ SubSeq(t, i, i + Len(p) - 1) = p

RECURSIVE LStripChars(_, _)
LStripChars(t, chars) ==
    IF t # <<>> /\ Head(t) \in chars THEN LStripChars(Tail(t), chars) ELSE t

RECURSIVE RStripChars(_, _)
RStripChars(t, chars) ==
    IF t # <<>> /\ t[Len(t)] \in chars
    THEN RStripChars(SubSeq(t, 1, Len(t) - 1), chars)
    ELSE t

\* str.strip()
Strip(t) == RStripChars(LStripChars(t, Whitespace), Whitespace)

\* \w of the re module on the characters of the model
IsWordChar(c) == c \in Range(Lowers) \cup Range(Uppers) \cup Digits \cup {"_"}

\* \b between t[i-1] and t[i]
WordBoundary(t, i) ==
    LET before == i - 1 \in DOMAIN t /\ IsWordChar(t[i - 1])
        after == i \in DOMAIN t /\ IsWordChar(t[i])
    IN before # after

\* re.search(r'\b(a1|a2|...)\b', t) is not None
re_search(alts, t) ==
    \E p \in alts : \E i \in DOMAIN t :
        /\ t[i] = p[1]
        /\ i + Len(p) - 1 <= Len(t)
        /\ SubSeq(t, i, i + Len(p) - 1) = p
        /\ WordBoundary(t, i)
        /\ WordBoundary(t, i + Len(p))

RECURSIVE Concat(_)
Concat(ss) == IF ss = <<>> THEN <<>> ELSE Head(ss) \o Concat(Tail(ss))

\* every concatenation of at most n lexemes
TextsUpTo(lexemes, n) ==
    {Concat(ls) : ls \in UNION {[1..k -> lexemes] : k \in 0..n}}

-----------------------------------------------------------------------------
(* Intent classifier *)

query_patterns_sum_first == <<
    [type |-> "sum", alts |-> {
        <<"s","u","m">>,
        <<"t","o","t","a","l">>,
        <<"a","g","g","r","e","g","a","t","e">>}],
    [type |-> "count", alts |-> {
        <<"h","o","w"," ","m","a","n","y">>,
        <<"c","o","u","n","t">>,
        <<"n","u","m","b","e","r"," ","o","f">>,
        <<"t","o","t","a","l">>}],
    [type |-> "average", alts |-> {
        <<"a","v","e","r","a","g","e">>,
        <<"m","e","a","n">>,
        <<"a","v","g">>}],
    [type |-> "max", alts |-> {
        <<"m","a","x","i","m","u","m">>,
        <<"m","a","x">>,
        <<"h","i","g","h","e","s","t">>,
        <<"l","a","r","g","e","s","t">>}],
    [type |-> "min", alts |-> {
        <<"m","i","n","i","m","u","m">>,
        <<"m","i","n">>,
        <<"l","o","w","e","s","t">>,
        <<"s","m","a","l","l","e","s","t">>}],
    [type |-> "distribution", alts |-> {
        <<"d","i","s","t","r","i","b","u","t","i","o","n">>,
        <<"s","p","r","e","a","d">>,
        <<"r","a","n","g","e">>}],
    [type |-> "correlation", alts |-> {
        <<"c","o","r","r","e","l","a","t","i","o","n">>,
        <<"r","e","l","a","t","i","o","n","s","h","i","p">>,
        <<"r","e","l","a","t","e","d">>,
        <<"a","s","s","o","c","i","a","t","e","d">>}],
    [type |-> "filter", alts |-> {
        <<"w","h","e","r","e">>,
        <<"f","i","l","t","e","r">>,
        <<"s","h","o","w"," ","m","e">>,
        <<"f","i","n","d">>}],
    [type |-> "group", alts |-> {
        <<"g","r","o","u","p"," ","b","y">>,
        <<"g","r","o","u","p","e","d">>,
        <<"c","a","t","e","g","o","r","y">>,
        <<"c","a","t","e","g","o","r","i","e","s">>}],
    [type |-> "trend", alts |-> {
        <<"t","r","e","n","d">>,
        <<"o","v","e","r"," ","t","i","m","e">>,
        <<"t","i","m","e","l","i","n","e">>,
        <<"c","h","a","n","g","e">>}] >>

\* load_query_patterns: the dict, in insertion order
query_patterns == <<
    [type |-> "count", alts |-> {
        <<"h","o","w"," ","m","a","n","y">>,
        <<"c","o","u","n","t">>,
        <<"n","u","m","b","e","r"," ","o","f">>,
        <<"t","o","t","a","l">>}],
    [type |-> "average", alts |-> {
        <<"a","v","e","r","a","g","e">>,
        <<"m","e","a","n">>,
        <<"a","v","g">>}],
    [type |-> "max", alts |-> {
        <<"m","a","x","i","m","u","m">>,
        <<"m","a","x">>,
        <<"h","i","g","h","e","s","t">>,
        <<"l","a","r","g","e","s","t">>}],
    [type |-> "min", alts |-> {
        <<"m","i","n","i","m","u","m">>,
        <<"m","i","n">>,
        <<"l","o","w","e","s","t">>,
        <<"s","m","a","l","l","e","s","t">>}],
    [type |-> "sum", alts |-> {
        <<"s","u","m">>,
        <<"t","o","t","a","l">>,
        <<"a","g","g","r","e","g","a","t","e">>}],
    [type |-> "distribution", alts |-> {
        <<"d","i","s","t","r","i","b","u","t","i","o","n">>,
        <<"s","p","r","e","a","d">>,
        <<"r","a","n","g","e">>}],
    [type |-> "correlation", alts |-> {
        <<"c","o","r","r","e","l","a","t","i","o","n">>,
        <<"r","e","l","a","t","i","o","n","s","h","i","p">>,
        <<"r","e","l","a","t","e","d">>,
        <<"a","s","s","o","c","i","a","t","e","d">>}],
    [type |-> "filter", alts |-> {
        <<"w","h","e","r","e">>,
        <<"f","i","l","t","e","r">>,
        <<"s","h","o","w"," ","m","e">>,
        <<"f","i","n","d">>}],
    [type |-> "group", alts |-> {
        <<"g","r","o","u","p"," ","b","y">>,
        <<"g","r","o","u","p","e","d">>,
        <<"c","a","t","e","g","o","r","y">>,
        <<"c","a","t","e","g","o","r","i","e","s">>}],
    [type |-> "trend", alts |-> {
        <<"t","r","e","n","d">>,
        <<"o","v","e","r"," ","t","i","m","e">>,
        <<"t","i","m","e","l","i","n","e">>,
        <<"c","h","a","n","g","e">>}] >>

\* the for loop of classify_query from rule k on
RECURSIVE ClassifyFrom(_, _)
ClassifyFrom(k, query_lower) ==
    IF k > Len(query_patterns) THEN "general"
    ELSE IF re_search(query_patterns[k].alts, query_lower)
         THEN query_patterns[k].type
         ELSE ClassifyFrom(k + 1, query_lower)

classify_query_unmatched_error(query) ==
    LET t == ClassifyFrom(1, Lower(query))
    IN IF t = "general" THEN "unknown" ELSE t

classify_query(query) == ClassifyFrom(1, Lower(query))

-----------------------------------------------------------------------------
(* SQL sanitizer *)

\* llm_handler.py:176 stops after the three backquotes of its pattern; the
\* pattern is taken to be the language-tagged fence (fence, "sql", whitespace).
\* the backquote character (the module's lexer accepts none inside a string)
Backquote == "BQ"
FenceSql == <<Backquote, Backquote, Backquote, "s", "q", "l">>
Fence == <<Backquote, Backquote, Backquote>>

\* re.sub of a fence marker followed by any whitespace, replaced by nothing:
\* leftmost, non-overlapping matches
RECURSIVE re_sub_fence(_, _)
re_sub_fence(marker, t) ==
    IF t = <<>> THEN <<>>
    ELSE IF StartsWith(t, marker)
         THEN re_sub_fence(marker,
                  LStripChars(SubSeq(t, Len(marker) + 1, Len(t)), Whitespace))
         ELSE <<Head(t)>> \o re_sub_fence(marker, Tail(t))

\* the statements of clean_sql_query before the keyword scan
CleanText(query) ==
    Strip(RStripChars(re_sub_fence(Fence, re_sub_fence(FenceSql, query)), {";"}))

KwSelect == <<"S","E","L","E","C","T">>

dangerous_keywords == <<
    <<"D","R","O","P">>,
    <<"D","E","L","E","T","E">>,
    <<"U","P","D","A","T","E">>,
    <<"I","N","S","E","R","T">>,
    <<"C","R","E","A","T","E">>,
    <<"A","L","T","E","R">> >>

\* the for loop over dangerous_keywords from keyword k on: the index of the
\* keyword that raises, 0 when the loop ends without raising
RECURSIVE ScanKeywords(_, _)
ScanKeywords(k, query_upper) ==
    IF k > Len(dangerous_keywords) THEN 0
    ELSE IF Contains(query_upper, dangerous_keywords[k])
            /\ ~StartsWith(query_upper, KwSelect)
         THEN k
         ELSE ScanKeywords(k + 1, query_upper)

\* clean_sql_query: [ok, text, keyword]; ok = FALSE is the ValueError
\* "Dangerous SQL operation detected: <keyword>"
clean_sql_query_no_scan(raw) ==
    [ok |-> TRUE, text |-> CleanText(raw), keyword |-> <<>>]

clean_sql_query_keyword_only(raw) ==
    LET query == CleanText(raw)
        hit == {k \in DOMAIN dangerous_keywords :
                    Contains(Upper(query), dangerous_keywords[k])}
    IN IF hit = {}
       THEN [ok |-> TRUE, text |-> query, keyword |-> <<>>]
       ELSE [ok |-> FALSE, text |-> query,
             keyword |-> dangerous_keywords[CHOOSE k \in hit : \A j \in hit : k <= j]]

clean_sql_query(raw) ==
    LET query == CleanText(raw)
        k == ScanKeywords(1, Upper(query))
    IN IF k = 0
       THEN [ok |-> TRUE, text |-> query, keyword |-> <<>>]
       ELSE [ok |-> FALSE, text |-> query, keyword |-> dangerous_keywords[k]]

DangerMessage(keyword) == <<"Dangerous SQL operation detected: ">> \o keyword

-----------------------------------------------------------------------------
(* Datasets, query results and the texts built from them *)

TableNames == <<"data_a", "data_b", "data_c", "data_d">>
NatStr == <<"1", "2", "3", "4", "5", "6", "7", "8", "9">>

\* str(n)
Str(n) == IF n = 0 THEN "0" ELSE NatStr[n]

\* dataset k with r rows; a row is a text naming its table and its position
Dataset(k, r) ==
    [table |-> TableNames[k],
     dataframe |-> [i \in 1..r |-> <<TableNames[k], ":", NatStr[i]>>]]

\* the lists handle_file_upload can hand over: n datasets, the first of r rows
DataSets ==
    {<<>>} \cup
    {[k \in 1..n |-> Dataset(k, IF k = 1 THEN r ELSE k)] :
        n \in 1..MaxDatasets, r \in 0..MaxRows}

\* the tables store_dataframe wrote for the datasets at upload, one per dataset
StoredTables(data) ==
    [t \in {data[k].table : k \in DOMAIN data} |->
        data[CHOOSE k \in DOMAIN data : data[k].table = t].dataframe]

\* DataFrame.head(n)
SampleRows == 3
head(df, n) == SubSeq(df, 1, IF Len(df) < n THEN Len(df) ELSE n)

\* DataFrame.to_string()
RECURSIVE RowsToString(_)
RowsToString(df) ==
    IF df = <<>> THEN <<>> ELSE <<"\n">> \o Head(df) \o RowsToString(Tail(df))

to_string(df) ==
    IF df = <<>> THEN <<"Empty DataFrame">> ELSE <<"columns">> \o RowsToString(df)

\* shapes of the DataFrame execute_query can return: rows, columns, how many
\* columns are numeric, and whether two numeric columns share a name
ResultShapes ==
    {[rows |-> r, cols |-> c, numeric |-> m, dup |-> d] :
        r \in 0..MaxResultRows, c \in 1..MaxResultCols,
        m \in 0..MaxResultCols, d \in BOOLEAN} \cap
    {s \in [rows : Nat, cols : Nat, numeric : Nat, dup : BOOLEAN] :
        s.numeric <= s.cols /\ (s.dup => s.numeric >= 2)}


\* should_visualize(query_type, results), results being None or <<df>>
viz_types == {"distribution", "correlation", "trend", "group"}

should_visualize_from_one_row(qt, res) ==
    IF res = None \/ res[1].rows = 0 THEN FALSE
    ELSE qt \in viz_types /\ res[1].rows >= 1

should_visualize(qt, res) ==
    IF res = None \/ res[1].rows = 0 THEN FALSE
    ELSE qt \in viz_types /\ res[1].rows > 1

EmptyResultMessageNoDataFound == <<"No data found for this query">>

\* generate_response, the early return of llm_handler.py:195-196
EmptyResultMessage ==
    <<"I couldn't find any data that matches your query. Please try rephrasing your question or check if the data exists.">>

\* get_result_summary raises KeyError('mean') when df[col] is a frame, that is
\* when two numeric columns of the result carry the same name
DigestRaises(df) == df.dup
DigestError == <<"'mean'">>

get_simple_summary_one_numeric_among_columns(df) ==
    IF df.rows = 1 /\ df.cols = 1
    THEN <<"The answer is: ", "<value>">>
    ELSE <<"Found ", Str(df.rows), " records">> \o
         (IF df.numeric = 1
          THEN <<" with an average ", "<column>", " of ", "<mean>">>
          ELSE <<>>)

\* get_simple_summary
get_simple_summary(df) ==
    IF df.rows = 1 /\ df.cols = 1
    THEN <<"The answer is: ", "<value>">>
    ELSE <<"Found ", Str(df.rows), " records">> \o
         (IF df.cols = 1 /\ df.numeric = 1
          THEN <<" with an average ", "<column>", " of ", "<mean>">>
          ELSE <<>>)

\* the except branch of generate_response, llm_handler.py:223-224
NarrationFallback(df) ==
    <<"Based on your query, I found ", Str(df.rows),
      " records. Here's what the data shows:\n\n">> \o get_simple_summary(df)

\* build_data_context: one description per dataset, in order
build_data_context(data) ==
    [k \in DOMAIN data |->
        [table |-> data[k].table, rows |-> Len(data[k].dataframe)]]

ErrorNarrativeWithoutSample(query, err, data) ==
    <<"I couldn't process your query due to an error: ">> \o err

\* the narrative of handle_query_error
ErrorNarrative(query, err, data) ==
    IF data # <<>>
    THEN <<"\nI encountered an issue processing your query: \"">> \o query
         \o <<"\"\n\nError: ">> \o err
         \o <<"\n\nHere's a sample of your data to help you rephrase your question:\n\n">>
         \o to_string(head(data[1].dataframe, SampleRows))
         \o <<"\n\nYou can try asking:\n- \"How many records are there?\"\n- \"What are the column names?\"\n- \"Show me basic statistics\"\n">>
    ELSE <<"I couldn't process your query due to an error: ">> \o err

\* the dict handle_query_error returns
handle_query_error(query, err, data) ==
    [response |-> ErrorNarrative(query, err, data),
     data |-> None,
     type |-> "error",
     sql_query |-> None,
     suggest_visualization |-> FALSE]

\* the message of the exception generate_sql_query raises
GenerationMessage(err) == <<"Failed to generate SQL query: ">> \o err

-----------------------------------------------------------------------------
(* What the external capabilities can answer *)

\* exceptions of self.model.generate_content / response.text
ModelErrors == {<<"model unavailable">>}

\* exceptions of sqlite3 in execute_query
ExecErrors == {<<"no such table: x">>}

\* a statement that writes a row into the first dataset's table, without and
\* with a RETURNING clause
WriteTarget == TableNames[1]
WrittenRow == <<WriteTarget, ":", "9">>
ReplacePlain ==
    <<"R","E","P","L","A","C","E"," ","I","N","T","O"," ","d","a","t","a","_","a"," ","V","A","L","U","E","S"," ","(","9",")">>
ReplaceReturning ==
    ReplacePlain \o <<" ","R","E","T","U","R","N","I","N","G"," ","*">>

KwReplaceInto == <<"R","E","P","L","A","C","E"," ","I","N","T","O"," ">>
KwReturning == <<" ","R","E","T","U","R","N","I","N","G"," ">>

\* what sqlite3 does with the statement conn.execute is given
IsWrite(sql) == StartsWith(Upper(sql), KwReplaceInto)
HasReturning(sql) == Contains(Upper(sql), KwReturning)

\* the TypeError of database.py:97 when cursor.description is None
NoDescriptionError == <<"'NoneType' object is not iterable">>

\* texts the model can return for the SQL prompt
PipelineRawSql == {
    ReplacePlain,
    ReplaceReturning,
    <<"S","E","L","E","C","T"," ","x">>,
    <<Backquote,Backquote,Backquote,"s","q","l","\n","S","E","L","E","C","T",
      " ","x",";","\n",Backquote,Backquote,Backquote>>,
    <<"D","E","L","E","T","E"," ","F","R","O","M"," ","p","a","t","i","e","n","t","s">>,
    <<"P","R","A","G","M","A"," ","x">>,
    <<"T","R","U","N","C","A","T","E"," ","x">>,
    <<"S","E","L","E","C","T","E","D"," ","D","R","O","P"," ","T","A","B","L","E"," ","x">> }

\* texts the model can return for the narration prompt
NarrationChars == {<<" ">>, <<"A">>}
NarrationTexts == TextsUpTo(NarrationChars, MaxNarrationLen)

\* questions put to the pipeline
PipelineQuestions == {
    <<"H","o","w"," ","m","a","n","y"," ","p","a","t","i","e","n","t","s">>,
    <<"t","r","e","n","d"," ","o","f"," ","w","e","i","g","h","t">>,
    <<"p","a","t","i","e","n","t","s">> }

\* lexemes of the questions given to classify_query alone
QuestionLexemes == {
    <<" ">>,
    <<"t","o","t","a","l">>,
    <<"T","o","t","a","l">>,
    <<"s","u","m">>,
    <<"s">>,
    <<"m","e","a","n">>,
    <<"m","a","x">>,
    <<"m","i","n">>,
    <<"r","a","n","g","e">>,
    <<"r","e","l","a","t","e","d">>,
    <<"f","i","n","d">>,
    <<"g","r","o","u","p","e","d">>,
    <<"t","r","e","n","d">> }

\* lexemes of the texts given to clean_sql_query alone
SqlLexemes == {
    <<"S","E","L","E","C","T"," ">>,
    <<"s","e","l","e","c","t"," ">>,
    <<"S","E","L","E","C","T","E","D"," ">>,
    <<"x">>,
    <<";">>,
    <<"\n">>,
    <<Backquote,Backquote,Backquote>>,
    <<"s","q","l">>,
    <<"D","R","O","P"," ","T","A","B","L","E"," ","x">>,
    <<"d","e","l","e","t","e"," ">>,
    <<"T","R","U","N","C","A","T","E"," ">>,
    <<"u","p","d","a","t","e","d","_","a","t">> }

-----------------------------------------------------------------------------
(* process_natural_language_query, one action per stage *)

Blank ==
    /\ query_type = "" /\ data_context = <<>> /\ raw_sql = <<>>
    /\ sql_query = None /\ results = None /\ error = <<>>
    /\ response = None /\ raised = None
    /\ model_calls = <<>> /\ execute_calls = <<>> /\ model_outcomes = <<>>

\* initialize_session_state, and nothing typed, handed over or returned yet
Idle ==
    /\ session_state = [messages |-> <<>>, query_history |-> <<>>,
                        quick_question |-> None]
    /\ user_input = None
    /\ submitted = <<>>
    /\ invocations = <<>>
    /\ returned = None
    /\ instances = <<>>
    /\ capabilities = <<>>
    /\ uploaded_files = <<>>
    /\ log_calls = <<>>

Init ==
    /\ pc = "Classifying"
    /\ question \in PipelineQuestions
    /\ processed_data \in DataSets
    /\ storage = StoredTables(processed_data)
    /\ Blank
    /\ Idle

\* llm_handler.py:64
ClassifyQuery ==
    /\ pc = "Classifying"
    /\ query_type' = classify_query(question)
    /\ pc' = "BuildingContext"
    /\ UNCHANGED <<question, processed_data, data_context, raw_sql, sql_query,
                   results, error, response, raised, model_calls, execute_calls,
                   model_outcomes, storage, outside_vars>>

\* llm_handler.py:67
BuildDataContext ==
    /\ pc = "BuildingContext"
    /\ data_context' = build_data_context(processed_data)
    /\ pc' = "Synthesizing"
    /\ UNCHANGED <<question, processed_data, query_type, raw_sql, sql_query,
                   results, error, response, raised, model_calls, execute_calls,
                   model_outcomes, storage, outside_vars>>

\* generate_sql_query, the model call: llm_handler.py:161-163 and, when it
\* fails, 170-171; the exception leaves process_natural_language_query, whose
\* try starts only at line 73
Synthesize ==
    /\ pc = "Synthesizing"
    /\ model_calls' = Append(model_calls, "sql")
    /\ \E ok \in BOOLEAN :
        IF ok
        THEN \E text \in PipelineRawSql :
                /\ raw_sql' = Strip(text)
                /\ model_outcomes' = Append(model_outcomes, "ok")
                /\ pc' = "Sanitizing"
                /\ UNCHANGED raised
        ELSE \E err \in ModelErrors :
                /\ raised' = Some(GenerationMessage(err))
                /\ model_outcomes' = Append(model_outcomes, "failed")
                /\ pc' = "Raised"
                /\ UNCHANGED raw_sql
    /\ UNCHANGED <<question, processed_data, query_type, data_context, sql_query,
                   results, error, response, execute_calls, storage,
                   outside_vars>>

SanitizeAndExecuteAnyway ==
    /\ pc = "Sanitizing"
    /\ sql_query' = Some(clean_sql_query(raw_sql).text)
    /\ pc' = "Executing"
    /\ UNCHANGED <<question, processed_data, query_type, data_context, raw_sql,
                   results, error, response, raised, model_calls, execute_calls,
                   model_outcomes, storage, outside_vars>>

\* generate_sql_query, llm_handler.py:166-171: clean_sql_query and the re-raise
Sanitize ==
    /\ pc = "Sanitizing"
    /\ LET r == clean_sql_query(raw_sql)
       IN IF r.ok
          THEN /\ sql_query' = Some(r.text)
               /\ pc' = "Executing"
               /\ UNCHANGED raised
          ELSE /\ raised' = Some(GenerationMessage(DangerMessage(r.keyword)))
               /\ pc' = "Raised"
               /\ UNCHANGED sql_query
    /\ UNCHANGED <<question, processed_data, query_type, data_context, raw_sql,
                   results, error, response, model_calls, execute_calls,
                   model_outcomes, storage, outside_vars>>

\* llm_handler.py:74 with database.py:86-113: one execute; it returns a frame
\* or raises, and the raise is caught at llm_handler.py:87.  The connection
\* commits when the with block is left normally and rolls back when it is
\* left by an exception: a write that returns rows is committed, a write
\* without rows fails at cursor.description (line 97) and is rolled back.
Execute ==
    /\ pc = "Executing"
    /\ execute_calls' = Append(execute_calls, sql_query[1])
    /\ LET sql == sql_query[1]
       IN \E ok \in BOOLEAN :
            IF ok /\ (IsWrite(sql) => WriteTarget \in DOMAIN storage)
            THEN IF ~IsWrite(sql)
                 THEN \E df \in ResultShapes :
                        /\ results' = Some(df)
                        /\ pc' = "Narrating"
                        /\ UNCHANGED <<error, storage>>
                 ELSE IF HasReturning(sql)
                 THEN \E df \in {s \in ResultShapes : s.rows = 1} :
                        /\ results' = Some(df)
                        /\ storage' = [storage EXCEPT
                                          ![WriteTarget] = Append(@, WrittenRow)]
                        /\ pc' = "Narrating"
                        /\ UNCHANGED error
                 ELSE /\ error' = NoDescriptionError
                      /\ pc' = "ErrorFallback"
                      /\ UNCHANGED <<results, storage>>
            ELSE \E err \in ExecErrors :
                    /\ error' = err
                    /\ pc' = "ErrorFallback"
                    /\ UNCHANGED <<results, storage>>
    /\ UNCHANGED <<question, processed_data, query_type, data_context, raw_sql,
                   sql_query, response, raised, model_calls, model_outcomes,
                   outside_vars>>

\* the dict of llm_handler.py:79-85
ResponseDict(narrative, res, qt, sql) ==
    [response |-> narrative,
     data |-> res,
     type |-> qt,
     sql_query |-> sql,
     suggest_visualization |-> should_visualize(qt, res)]

NormalResponseWithRawSql(narrative) ==
    ResponseDict(narrative, results, query_type, Some(raw_sql))

\* that dict around a narrative, from the locals of the invocation
NormalResponse(narrative) ==
    ResponseDict(narrative, results, query_type, sql_query)

NarrateAskingModelFirst ==
    /\ pc = "Narrating"
    /\ model_calls' = Append(model_calls, "narrate")
    /\ \E ok \in BOOLEAN :
        /\ model_outcomes' = Append(model_outcomes, IF ok THEN "ok" ELSE "failed")
        /\ response' = Some(NormalResponse(
                IF results[1].rows = 0 THEN EmptyResultMessage
                ELSE NarrationFallback(results[1])))
    /\ pc' = "Done"
    /\ UNCHANGED <<question, processed_data, query_type, data_context, raw_sql,
                   sql_query, results, error, raised, execute_calls, storage,
                   outside_vars>>

NarrateFailureToErrorFallback ==
    /\ pc = "Narrating"
    /\ model_calls' = Append(model_calls, "narrate")
    /\ \E ok \in BOOLEAN :
        IF ok
        THEN /\ response' = Some(NormalResponse(<<"A">>))
             /\ model_outcomes' = Append(model_outcomes, "ok")
             /\ pc' = "Done"
             /\ UNCHANGED error
        ELSE /\ error' = <<"model unavailable">>
             /\ model_outcomes' = Append(model_outcomes, "failed")
             /\ pc' = "ErrorFallback"
             /\ UNCHANGED response
    /\ UNCHANGED <<question, processed_data, query_type, data_context, raw_sql,
                   sql_query, results, raised, execute_calls, storage,
                   outside_vars>>

\* llm_handler.py:77-85: generate_response (192-224), should_visualize, return
Narrate ==
    /\ pc = "Narrating"
    /\ LET df == results[1]
       IN IF df.rows = 0
          THEN /\ response' = Some(NormalResponse(EmptyResultMessage))
               /\ pc' = "Done"
               /\ UNCHANGED <<error, model_calls, model_outcomes>>
          ELSE IF DigestRaises(df)
          THEN /\ error' = DigestError
               /\ pc' = "ErrorFallback"
               /\ UNCHANGED <<response, model_calls, model_outcomes>>
          ELSE /\ model_calls' = Append(model_calls, "narrate")
               /\ pc' = "Done"
               /\ UNCHANGED error
               /\ \E ok \in BOOLEAN :
                    IF ok
                    THEN \E text \in NarrationTexts :
                            /\ response' = Some(NormalResponse(Strip(text)))
                            /\ model_outcomes' = Append(model_outcomes, "ok")
                    ELSE /\ response' = Some(NormalResponse(NarrationFallback(df)))
                         /\ model_outcomes' = Append(model_outcomes, "failed")
    /\ UNCHANGED <<question, processed_data, query_type, data_context, raw_sql,
                   sql_query, results, raised, execute_calls, storage,
                   outside_vars>>

HandleQueryErrorRetryingOnce ==
    /\ pc = "ErrorFallback"
    /\ IF Len(execute_calls) = 1
       THEN pc' = "Executing" /\ UNCHANGED response
       ELSE /\ response' = Some(handle_query_error(question, error, processed_data))
            /\ pc' = "Done"
    /\ UNCHANGED <<question, processed_data, query_type, data_context, raw_sql,
                   sql_query, results, error, raised, model_calls, execute_calls,
                   model_outcomes, storage, outside_vars>>

\* llm_handler.py:87-89 and 268-298
HandleQueryError ==
    /\ pc = "ErrorFallback"
    /\ response' = Some(handle_query_error(question, error, processed_data))
    /\ pc' = "Done"
    /\ UNCHANGED <<question, processed_data, query_type, data_context, raw_sql,
                   sql_query, results, error, raised, model_calls, execute_calls,
                   model_outcomes, storage, outside_vars>>

Next ==
    \/ ClassifyQuery
    \/ BuildDataContext
    \/ Synthesize
    \/ Sanitize
    \/ Execute
    \/ Narrate
    \/ HandleQueryError

Spec == Init /\ [][Next]_vars

-----------------------------------------------------------------------------
(* classify_query and clean_sql_query called on their own *)

InitClassify ==
    /\ pc = "classify_query"
    /\ question \in TextsUpTo(QuestionLexemes, MaxQuestionLexemes)
    /\ processed_data = <<>>
    /\ storage = StoredTables(<<>>)
    /\ Blank
    /\ Idle

CallClassifyQuery ==
    /\ pc = "classify_query"
    /\ query_type' = classify_query(question)
    /\ pc' = "returned"
    /\ UNCHANGED <<question, processed_data, data_context, raw_sql, sql_query,
                   results, error, response, raised, model_calls, execute_calls,
                   model_outcomes, storage, outside_vars>>

SpecClassify == InitClassify /\ [][CallClassifyQuery]_vars

InitSanitize ==
    /\ pc = "clean_sql_query"
    /\ question = <<>>
    /\ processed_data = <<>>
    /\ query_type = "" /\ data_context = <<>>
    /\ raw_sql \in TextsUpTo(SqlLexemes, MaxRawLexemes)
    /\ sql_query = None /\ results = None /\ error = <<>>
    /\ response = None /\ raised = None
    /\ model_calls = <<>> /\ execute_calls = <<>> /\ model_outcomes = <<>>
    /\ storage = StoredTables(<<>>)
    /\ Idle

CallCleanSqlQuery ==
    /\ pc = "clean_sql_query"
    /\ LET r == clean_sql_query(raw_sql)
       IN IF r.ok
          THEN sql_query' = Some(r.text) /\ UNCHANGED raised
          ELSE raised' = Some(DangerMessage(r.keyword)) /\ UNCHANGED sql_query
    /\ pc' = "returned"
    /\ UNCHANGED <<question, processed_data, query_type, data_context, raw_sql,
                   results, error, response, model_calls, execute_calls,
                   model_outcomes, storage, outside_vars>>

SpecSanitize == InitSanitize /\ [][CallCleanSqlQuery]_vars

-----------------------------------------------------------------------------
(* should_visualize called on its own *)

\* the values classify_query can return
QueryTypes == {query_patterns[k].type : k \in DOMAIN query_patterns} \cup {"general"}

\* the frames it is given: any number of rows and columns
VizShapes ==
    {[rows |-> r, cols |-> c, numeric |-> 0, dup |-> FALSE] :
        r \in 0..MaxVizRows, c \in 1..MaxResultCols}

InitVisualize ==
    /\ pc = "should_visualize"
    /\ question = <<>>
    /\ processed_data = <<>>
    /\ storage = StoredTables(<<>>)
    /\ query_type \in QueryTypes
    /\ results \in {None} \cup {Some(df) : df \in VizShapes}
    /\ data_context = <<>> /\ raw_sql = <<>> /\ sql_query = None
    /\ error = <<>> /\ response = None /\ raised = None
    /\ model_calls = <<>> /\ execute_calls = <<>> /\ model_outcomes = <<>>
    /\ Idle

CallShouldVisualize ==
    /\ pc = "should_visualize"
    /\ returned' = Some(should_visualize(query_type, results))
    /\ pc' = "returned"
    /\ UNCHANGED <<question, processed_data, query_type, data_context, raw_sql,
                   sql_query, results, error, response, raised, model_calls,
                   execute_calls, model_outcomes, storage, session_state,
                   user_input, submitted, invocations, instances,
                   capabilities, uploaded_files, log_calls>>

SpecVisualize == InitVisualize /\ [][CallShouldVisualize]_vars

-----------------------------------------------------------------------------
(* The chat page: render_chat_interface run by every run of the script *)

\* A question of the page is its text and the number of its characters.
\* What st.chat_input can hand over: "" stands for a submission without
\* text, the others are texts of 1, 2000 and 2001 characters.
TypedQuestions ==
    {[text |-> <<"">>, len |-> 0],
     [text |-> <<"a">>, len |-> 1],
     [text |-> <<"a question of 2000 characters">>, len |-> 2000],
     [text |-> <<"a question of 2001 characters">>, len |-> 2001]}

\* two of the buttons of the sidebar (the pictograph each label starts with
\* is counted in len and left out of text)
quick_questions ==
    {[text |-> <<"How many patients?">>, len |-> 20],
     [text |-> <<"Find correlations">>, len |-> 19]}

\* how process_natural_language_query can end for the page: the normal
\* Response, the Response of handle_query_error, or an exception
PipelineOutcomes(q) ==
    {[raised |-> None,
      result |-> Some([response |-> <<"A">>,
                       data |-> Some([rows |-> 2, cols |-> 1, numeric |-> 0,
                                      dup |-> FALSE]),
                       type |-> "general",
                       sql_query |-> Some(KwSelect),
                       suggest_visualization |-> FALSE])]} \cup
    {[raised |-> None,
      result |-> Some(handle_query_error(q.text, err, processed_data))] :
        err \in ExecErrors} \cup
    {[raised |-> Some(GenerationMessage(err)), result |-> None] :
        err \in ModelErrors}

\* the messages handle_user_input appends
UserMessage(q) ==
    [role |-> "user", content |-> q.text, query_type |-> None,
     results |-> None, error |-> FALSE]

ResponseMessage(r) ==
    [role |-> "assistant", content |-> r.response, query_type |-> Some(r.type),
     results |-> r.data, error |-> FALSE]

ErrorMessage(e) ==
    [role |-> "assistant",
     content |-> <<"X **Error:** ">> \o e
                 \o <<"\n\nPlease try rephrasing your question or check your data format.">>,
     query_type |-> None, results |-> None, error |-> TRUE]

handle_user_input_without_error_message(q) ==
    /\ Len(invocations) < MaxHandledInputs
    /\ invocations' = Append(invocations, q)
    /\ \E o \in PipelineOutcomes(q) :
        IF o.raised = None
        THEN session_state' =
                [session_state EXCEPT
                    !.messages = @ \o <<UserMessage(q), ResponseMessage(o.result[1])>>,
                    !.query_history = Append(@, [query |-> q.text, success |-> TRUE])]
        ELSE session_state' =
                [session_state EXCEPT !.messages = Append(@, UserMessage(q))]
    /\ user_input' = None
    /\ pc' = "ProcessInput"

\* handle_user_input(q, ...): the user message, the pipeline call, the
\* assistant message, the history entry, and st.rerun(), which ends this run
\* of the script and starts the next one from the top with no widget
\* triggered
handle_user_input(q) ==
    /\ Len(invocations) < MaxHandledInputs
    /\ invocations' = Append(invocations, q)
    /\ \E o \in PipelineOutcomes(q) :
        IF o.raised = None
        THEN session_state' =
                [session_state EXCEPT
                    !.messages = @ \o <<UserMessage(q), ResponseMessage(o.result[1])>>,
                    !.query_history = Append(@, [query |-> q.text, success |-> TRUE])]
        ELSE session_state' =
                [session_state EXCEPT
                    !.messages = @ \o <<UserMessage(q), ErrorMessage(o.raised[1])>>]
    /\ user_input' = None
    /\ pc' = "ProcessInput"

pipeline_vars == <<question, processed_data, query_type, data_context, raw_sql,
                   sql_query, results, error, response, raised, model_calls,
                   execute_calls, model_outcomes, storage>>

InitChat ==
    /\ pc = "Waiting"
    /\ question = <<>>
    /\ processed_data = <<Dataset(1, 1)>>
    /\ storage = StoredTables(processed_data)
    /\ Blank
    /\ Idle

\* the user submits the chat input: the script runs with that value
SubmitChatInput ==
    /\ pc = "Waiting"
    /\ \E q \in TypedQuestions :
        /\ user_input' = Some(q)
        /\ submitted' = IF q.len > 0 THEN Append(submitted, q) ELSE submitted
    /\ pc' = "ProcessInput"
    /\ UNCHANGED <<pipeline_vars, session_state, invocations, returned,
                   instances, capabilities, uploaded_files, log_calls>>

\* the user clicks a quick question of the sidebar: sidebar.py:52-54, run
\* before render_chat_interface in the same run of the script
ClickQuickQuestion ==
    /\ pc = "Waiting"
    /\ \E q \in quick_questions :
        /\ session_state' = [session_state EXCEPT !.quick_question = Some(q)]
        /\ submitted' = Append(submitted, q)
    /\ user_input' = None
    /\ pc' = "ProcessInput"
    /\ UNCHANGED <<pipeline_vars, invocations, returned, instances,
                   capabilities, uploaded_files, log_calls>>

\* chat.py:34-35
ProcessUserInput ==
    /\ pc = "ProcessInput"
    /\ IF user_input # None /\ user_input[1].len > 0
       THEN handle_user_input(user_input[1])
       ELSE /\ pc' = "QuickQuestion"
            /\ UNCHANGED <<session_state, user_input, invocations>>
    /\ UNCHANGED <<pipeline_vars, submitted, returned, instances, capabilities,
                   uploaded_files, log_calls>>

\* chat.py:38-45: st.rerun() inside handle_user_input leaves the script, so
\* the del of line 45 is not reached
QuickQuestionHandler ==
    /\ pc = "QuickQuestion"
    /\ IF session_state.quick_question # None
       THEN handle_user_input(session_state.quick_question[1])
       ELSE /\ pc' = "Waiting"
            /\ UNCHANGED <<session_state, user_input, invocations>>
    /\ UNCHANGED <<pipeline_vars, submitted, returned, instances, capabilities,
                   uploaded_files, log_calls>>

NextChat ==
    \/ SubmitChatInput
    \/ ClickQuickQuestion
    \/ ProcessUserInput
    \/ QuickQuestionHandler

SpecChat == InitChat /\ [][NextChat]_vars

-----------------------------------------------------------------------------
(* handle_file_upload: the loop over the uploaded files, one iteration per   *)
(* step.  Here a table name is a text and the file holds a table per name.   *)

\* str.split(sep)[0]: the text before the first sep
RECURSIVE split_first(_, _)
split_first(t, sep) ==
    IF t = <<>> \/ Head(t) = sep THEN <<>>
    ELSE <<Head(t)>> \o split_first(Tail(t), sep)

\* f"data_{file.name.split('.')[0].lower()}"
table_name(name) == <<"data_">> \o Lower(split_first(name, "."))

\* names of files a user can upload
FileNames ==
    {<<"a",".","c","s","v">>,
     <<"A",".","c","s","v">>,
     <<"a",".","v","2",".","c","s","v">>,
     <<"b",".","c","s","v">>}

\* the frame clean_and_process makes of a file: one row, telling the file
processed_df(name) == <<name \o <<":", "1">>>>

\* the lists st.file_uploader hands over: different files, in any order
UploadLists ==
    {fs \in UNION {[1..n -> FileNames] : n \in 0..MaxUploads} :
        \A i, j \in DOMAIN fs : i # j => fs[i] # fs[j]}

\* the tables the SQLite file holds before the upload: none, or one stored by
\* an earlier session under the name of the first file
EarlierTables ==
    {StoredTables(<<>>),
     [t \in {table_name(<<"a",".","c","s","v">>)} |-> <<<<"earlier", ":", "1">>>>]}

InitUpload ==
    /\ pc = "handle_file_upload"
    /\ question = <<>>
    /\ processed_data = <<>>
    /\ storage \in EarlierTables
    /\ Blank
    /\ session_state = [messages |-> <<>>, query_history |-> <<>>,
                        quick_question |-> None]
    /\ user_input = None /\ submitted = <<>> /\ invocations = <<>>
    /\ returned = None /\ instances = <<>> /\ capabilities = <<>>
    /\ uploaded_files \in UploadLists
    /\ log_calls = <<>>

\* store_dataframe(df, table): True with the table replaced by df; False with
\* the file as it was, or with the table already replaced when the failure
\* comes after to_sql
store_dataframe(df, table) ==
    {[ok |-> TRUE, store |-> [t \in DOMAIN storage \cup {table} |->
                                 IF t = table THEN df ELSE storage[t]]],
     [ok |-> FALSE, store |-> storage],
     [ok |-> FALSE, store |-> [t \in DOMAIN storage \cup {table} |->
                                 IF t = table THEN df ELSE storage[t]]]}

\* app.py:113-129, one pass of the loop: the file is not valid and is left
\* out, or it is stored and appended whatever store_dataframe returned
ProcessFile ==
    /\ pc = "handle_file_upload"
    /\ uploaded_files # <<>>
    /\ LET file == Head(uploaded_files)
           table == table_name(file)
           df == processed_df(file)
       IN \E valid \in BOOLEAN :
            IF valid
            THEN \E r \in store_dataframe(df, table) :
                    /\ storage' = r.store
                    /\ processed_data' =
                          Append(processed_data, [table |-> table, dataframe |-> df])
            ELSE UNCHANGED <<storage, processed_data>>
    /\ uploaded_files' = Tail(uploaded_files)
    /\ UNCHANGED <<pc, question, query_type, data_context, raw_sql, sql_query,
                   results, error, response, raised, model_calls, execute_calls,
                   model_outcomes, session_state, user_input, submitted,
                   invocations, returned, instances, capabilities, log_calls>>

\* app.py:134-136: reading or processing a file raised; None is returned
FileRaises ==
    /\ pc = "handle_file_upload"
    /\ uploaded_files # <<>>
    /\ processed_data' = None
    /\ pc' = "returned"
    /\ UNCHANGED <<question, query_type, data_context, raw_sql, sql_query,
                   results, error, response, raised, model_calls, execute_calls,
                   model_outcomes, storage, session_state, user_input, submitted,
                   invocations, returned, instances, capabilities,
                   uploaded_files, log_calls>>

\* app.py:131-132
ReturnProcessedFiles ==
    /\ pc = "handle_file_upload"
    /\ uploaded_files = <<>>
    /\ pc' = "returned"
    /\ UNCHANGED <<question, processed_data, query_type, data_context, raw_sql,
                   sql_query, results, error, response, raised, model_calls,
                   execute_calls, model_outcomes, storage, session_state,
                   user_input, submitted, invocations, returned, instances,
                   capabilities, uploaded_files, log_calls>>

NextUpload == ProcessFile \/ FileRaises \/ ReturnProcessedFiles

SpecUpload == InitUpload /\ [][NextUpload]_vars

-----------------------------------------------------------------------------
(* execute_query with its logging, statement by statement.  The dataset      *)
(* tables are in storage; the rows of the query_history table are the        *)
(* entries of log_calls that were written.                                   *)

\* the statements execute_query is called with
ExecQueries == {<<"S","E","L","E","C","T"," ","x">>, ReplacePlain, ReplaceReturning}

\* sqlite3.OperationalError when a lock cannot be had within the timeout
LockedError == <<"database is locked">>

\* log_query(query, execution_time, success, error_message): the INSERT is
\* made on a connection of its own and every exception is swallowed, so the
\* row is written or not; it is not while the caller's connection holds a
\* write transaction
log_query(query, success, error_message, locked) ==
    {[query |-> query, success |-> success, error_message |-> error_message,
      written |-> w] : w \in IF locked THEN {FALSE} ELSE BOOLEAN}

InitExecuteQuery ==
    /\ pc = "idle"
    /\ question = <<>>
    /\ processed_data \in {<<>>, <<Dataset(1, 1)>>}
    /\ storage = StoredTables(processed_data)
    /\ Blank
    /\ Idle

\* database.py:86-88: a call, with the statement as argument
CallExecuteQuery ==
    /\ pc \in {"idle", "returned"}
    /\ Len(execute_calls) < MaxExecutes
    /\ \E query \in ExecQueries :
        /\ sql_query' = Some(query)
        /\ execute_calls' = Append(execute_calls, query)
    /\ results' = None /\ error' = <<>> /\ raised' = None /\ returned' = None
    /\ pc' = "execute_query"
    /\ UNCHANGED <<question, processed_data, query_type, data_context, raw_sql,
                   response, model_calls, model_outcomes, storage, session_state,
                   user_input, submitted, invocations, instances, capabilities,
                   uploaded_files, log_calls>>

\* database.py:91-102: conn.execute, fetchall, cursor.description, DataFrame.
\* A write stays in the open transaction of the connection; an exception
\* leaves the with block, which rolls back.
RunStatement ==
    /\ pc = "execute_query"
    /\ LET sql == sql_query[1]
       IN \E ok \in BOOLEAN :
            IF ok /\ (IsWrite(sql) => WriteTarget \in DOMAIN storage)
            THEN IF IsWrite(sql) /\ ~HasReturning(sql)
                 THEN /\ error' = NoDescriptionError
                      /\ pc' = "log_failure"
                      /\ UNCHANGED results
                 ELSE \E df \in {s \in ResultShapes : IsWrite(sql) => s.rows = 1} :
                        /\ results' = Some(df)
                        /\ pc' = "log_success"
                        /\ UNCHANGED error
            ELSE \E err \in ExecErrors :
                    /\ error' = err
                    /\ pc' = "log_failure"
                    /\ UNCHANGED results
    /\ UNCHANGED <<question, processed_data, query_type, data_context, raw_sql,
                   sql_query, response, raised, model_calls, execute_calls,
                   model_outcomes, storage, outside_vars>>

\* database.py:105-106: self.log_query(query, execution_time, True), inside
\* the with block
LogSuccess ==
    /\ pc = "log_success"
    /\ \E l \in log_query(sql_query[1], TRUE, None, IsWrite(sql_query[1])) :
        log_calls' = Append(log_calls, l)
    /\ pc' = "leave_with"
    /\ UNCHANGED <<question, processed_data, query_type, data_context, raw_sql,
                   sql_query, results, error, response, raised, model_calls,
                   execute_calls, model_outcomes, storage, session_state,
                   user_input, submitted, invocations, returned, instances,
                   capabilities, uploaded_files>>

\* database.py:108, return df: the with block is left and the connection
\* commits.  Nothing is to commit after a read; the commit of a write takes
\* effect, or fails (another connection is reading) and the exception is
\* caught at line 110.
LeaveWith ==
    /\ pc = "leave_with"
    /\ IF ~IsWrite(sql_query[1])
       THEN /\ returned' = results
            /\ pc' = "returned"
            /\ UNCHANGED <<error, storage>>
       ELSE \E committed \in BOOLEAN :
              IF committed
              THEN /\ storage' = [storage EXCEPT
                                    ![WriteTarget] = Append(@, WrittenRow)]
                   /\ returned' = results
                   /\ pc' = "returned"
                   /\ UNCHANGED error
              ELSE /\ error' = LockedError
                   /\ pc' = "log_failure"
                   /\ UNCHANGED <<returned, storage>>
    /\ UNCHANGED <<question, processed_data, query_type, data_context, raw_sql,
                   sql_query, results, response, raised, model_calls,
                   execute_calls, model_outcomes, session_state, user_input,
                   submitted, invocations, instances, capabilities,
                   uploaded_files, log_calls>>

\* database.py:110-113: self.log_query(query, execution_time, False, str(e))
\* and raise e
LogFailure ==
    /\ pc = "log_failure"
    /\ \E l \in log_query(sql_query[1], FALSE, Some(error), FALSE) :
        log_calls' = Append(log_calls, l)
    /\ raised' = Some(error)
    /\ pc' = "returned"
    /\ UNCHANGED <<question, processed_data, query_type, data_context, raw_sql,
                   sql_query, results, error, response, model_calls,
                   execute_calls, model_outcomes, storage, session_state,
                   user_input, submitted, invocations, returned, instances,
                   capabilities, uploaded_files>>

NextExecuteQuery ==
    \/ CallExecuteQuery
    \/ RunStatement
    \/ LogSuccess
    \/ LeaveWith
    \/ LogFailure

SpecExecuteQuery == InitExecuteQuery /\ [][NextExecuteQuery]_vars

-----------------------------------------------------------------------------
(* Two invocations of process_natural_language_query running side by side:  *)
(* every invocation has its own locals, the SQLite file and the model are    *)
(* shared.  The model answers a prompt the same way whoever sends it, and    *)
(* the storage answers a statement from the rows it holds.                   *)

Instances == {1, 2}

\* the locals of an invocation at its entry
EntryLocals(q) ==
    [pc |-> "Classifying", question |-> q, query_type |-> "",
     data_context |-> <<>>, raw_sql |-> <<>>, sql_query |-> None,
     results |-> None, error |-> <<>>, response |-> None, raised |-> None]

\* answers of the model to the SQL prompt of a question
SqlAnswers ==
    {[ok |-> TRUE, text |-> t] :
        t \in {<<"S","E","L","E","C","T"," ","x">>,
               <<"S","E","L","E","C","T"," ","y">>,
               ReplaceReturning,
               <<"D","E","L","E","T","E"," ","F","R","O","M"," ","x">>}} \cup
    {[ok |-> FALSE, text |-> e] : e \in ModelErrors}

Capabilities ==
    [sql : [PipelineQuestions -> SqlAnswers], narration_ok : BOOLEAN]

\* execute_query on the rows the file holds: a statement that does not write
\* returns the rows of the first table
ExecAnswer(sql, store) ==
    IF WriteTarget \notin DOMAIN store
    THEN [ok |-> FALSE, error |-> <<"no such table: x">>, store |-> store]
    ELSE IF ~IsWrite(sql)
    THEN [ok |-> TRUE,
          df |-> [rows |-> Len(store[WriteTarget]), cols |-> 1, numeric |-> 0,
                  dup |-> FALSE],
          store |-> store]
    ELSE IF HasReturning(sql)
    THEN [ok |-> TRUE,
          df |-> [rows |-> 1, cols |-> 1, numeric |-> 0, dup |-> FALSE],
          store |-> [store EXCEPT ![WriteTarget] = Append(@, WrittenRow)]]
    ELSE [ok |-> FALSE, error |-> NoDescriptionError, store |-> store]

\* one stage of process_natural_language_query on the locals l
Stage(l, store, caps) ==
    CASE l.pc = "Classifying" ->
            [locals |-> [l EXCEPT !.query_type = classify_query(l.question),
                                  !.pc = "BuildingContext"],
             store |-> store]
      [] l.pc = "BuildingContext" ->
            [locals |-> [l EXCEPT !.data_context = build_data_context(processed_data),
                                  !.pc = "Synthesizing"],
             store |-> store]
      [] l.pc = "Synthesizing" ->
            LET a == caps.sql[l.question]
            IN [locals |-> IF a.ok
                           THEN [l EXCEPT !.raw_sql = Strip(a.text),
                                          !.pc = "Sanitizing"]
                           ELSE [l EXCEPT !.raised = Some(GenerationMessage(a.text)),
                                          !.pc = "Raised"],
                store |-> store]
      [] l.pc = "Sanitizing" ->
            LET r == clean_sql_query(l.raw_sql)
            IN [locals |-> IF r.ok
                           THEN [l EXCEPT !.sql_query = Some(r.text),
                                          !.pc = "Executing"]
                           ELSE [l EXCEPT !.raised = Some(GenerationMessage(
                                                        DangerMessage(r.keyword))),
                                          !.pc = "Raised"],
                store |-> store]
      [] l.pc = "Executing" ->
            LET a == ExecAnswer(l.sql_query[1], store)
            IN [locals |-> IF a.ok
                           THEN [l EXCEPT !.results = Some(a.df),
                                          !.pc = "Narrating"]
                           ELSE [l EXCEPT !.error = a.error,
                                          !.pc = "ErrorFallback"],
                store |-> a.store]
      [] l.pc = "Narrating" ->
            LET df == l.results[1]
                dict(narrative) ==
                    ResponseDict(narrative, l.results, l.query_type, l.sql_query)
            IN [locals |->
                    IF df.rows = 0
                    THEN [l EXCEPT !.response = Some(dict(EmptyResultMessage)),
                                   !.pc = "Done"]
                    ELSE IF DigestRaises(df)
                    THEN [l EXCEPT !.error = DigestError, !.pc = "ErrorFallback"]
                    ELSE IF caps.narration_ok
                    THEN [l EXCEPT !.response = Some(dict(Strip(<<"A">>))),
                                   !.pc = "Done"]
                    ELSE [l EXCEPT !.response = Some(dict(NarrationFallback(df))),
                                   !.pc = "Done"],
                store |-> store]
      [] l.pc = "ErrorFallback" ->
            [locals |-> [l EXCEPT !.response = Some(handle_query_error(
                                        l.question, l.error, processed_data)),
                                  !.pc = "Done"],
             store |-> store]
      [] OTHER -> [locals |-> l, store |-> store]

InitConcurrent ==
    /\ pc = "Concurrent"
    /\ question = <<>>
    /\ processed_data = <<Dataset(1, 2)>>
    /\ storage = StoredTables(processed_data)
    /\ Blank
    /\ session_state = [messages |-> <<>>, query_history |-> <<>>,
                        quick_question |-> None]
    /\ user_input = None /\ submitted = <<>> /\ invocations = <<>>
    /\ returned = None
    /\ instances \in [Instances -> {EntryLocals(q) : q \in PipelineQuestions}]
    /\ capabilities \in Capabilities
    /\ uploaded_files = <<>>
    /\ log_calls = <<>>

StageOfSharingSqlQuery(i) ==
    /\ instances[i].pc \notin {"Done", "Raised"}
    /\ LET other == CHOOSE j \in Instances : j # i
           mine == IF instances[i].pc = "Executing"
                      /\ instances[other].sql_query # None
                   THEN [instances[i] EXCEPT
                            !.sql_query = instances[other].sql_query]
                   ELSE instances[i]
           n == Stage(mine, storage, capabilities)
       IN /\ instances' = [instances EXCEPT ![i] = n.locals]
          /\ storage' = n.store
    /\ UNCHANGED <<pc, question, processed_data, query_type, data_context,
                   raw_sql, sql_query, results, error, response, raised,
                   model_calls, execute_calls, model_outcomes, session_state,
                   user_input, submitted, invocations, returned, capabilities,
                   uploaded_files, log_calls>>

\* instance i runs its next stage, on its own locals: nothing of an
\* invocation is kept on the handler object (context_memory is never written)
StageOf(i) ==
    /\ instances[i].pc \notin {"Done", "Raised"}
    /\ LET n == Stage(instances[i], storage, capabilities)
       IN /\ instances' = [instances EXCEPT ![i] = n.locals]
          /\ storage' = n.store
    /\ UNCHANGED <<pc, question, processed_data, query_type, data_context,
                   raw_sql, sql_query, results, error, response, raised,
                   model_calls, execute_calls, model_outcomes, session_state,
                   user_input, submitted, invocations, returned, capabilities,
                   uploaded_files, log_calls>>

NextConcurrent == \E i \in Instances : StageOf(i)

SpecConcurrent == InitConcurrent /\ [][NextConcurrent]_vars

-----------------------------------------------------------------------------
(* Vocabulary of the properties *)

Intents == {"count", "average", "max", "min", "sum", "distribution",
            "correlation", "filter", "group", "trend", "general"}

RuleOrder == <<"count", "average", "max", "min", "sum", "distribution",
               "correlation", "filter", "group", "trend">>

\* the keyword pattern declared for an intent
PatternOf(type) == (CHOOSE r \in Range(query_patterns) : r.type = type).alts

\* the intent's pattern matches the question, letter case ignored
MatchesIntent(type, q) == re_search(PatternOf(type), Lower(q))

HasKeyword(t) == \E k \in DOMAIN dangerous_keywords : Contains(t, dangerous_keywords[k])

\* the first token of a statement: its leading run of word characters
RECURSIVE FirstToken(_)
FirstToken(t) ==
    IF t # <<>> /\ IsWordChar(Head(t)) THEN <<Head(t)>> \o FirstToken(Tail(t)) ELSE <<>>

Finished == pc \in {"Done", "Raised"}

\* the locals an invocation for question q ends with when it is the only one
\* running, from the stored datasets and the same model
RECURSIVE RunFrom(_, _)
RunFrom(l, store) ==
    IF l.pc \in {"Done", "Raised"} THEN l
    ELSE LET n == Stage(l, store, capabilities)
         IN RunFrom(n.locals, n.store)

RunAlone(q) == RunFrom(EntryLocals(q), StoredTables(processed_data))

SampleIntro ==
    <<"\n\nHere's a sample of your data to help you rephrase your question:\n\n">>

\* the ErrorFallback outcome for the given error text
IsErrorFallback(r, err) ==
    /\ r.data = None
    /\ r.sql_query = None
    /\ r.suggest_visualization = FALSE
    /\ Contains(r.response, err)
    /\ (processed_data # <<>>) <=> Contains(r.response, SampleIntro)
    /\ processed_data # <<>> =>
         Contains(r.response,
                  SampleIntro \o to_string(head(processed_data[1].dataframe, 3)))

ExampleDropTable == <<"D","R","O","P"," ","T","A","B","L","E"," ","x">>
ExampleSelectDropLiteral ==
    <<"S","E","L","E","C","T"," ","*"," ","F","R","O","M"," ","x"," ","W","H","E",
      "R","E"," ","n","o","t","e"," ","="," ","'","D","R","O","P","'">>

-----------------------------------------------------------------------------
(* The claims *)

\* C1: whatever the external capabilities do (model call failing during SQL
\* synthesis, sanitizer rejecting, execute failing), the invocation never lets
\* an exception reach its caller, and a finished invocation has returned a
\* Response.
C1_NeverPropagatesException ==
    /\ pc # "Raised"
    /\ raised = None
    /\ Finished => response # None

\* C2: execute is invoked only after the sanitizer accepted the generated SQL
\* and only with the text the sanitizer returned; when the sanitizer rejects
\* the SQL, execute is never invoked.
C2_ExecuteOnlyWhatSanitizerAccepted ==
    /\ \A i \in DOMAIN execute_calls :
          /\ pc \notin {"Classifying", "BuildingContext", "Synthesizing", "Sanitizing"}
          /\ clean_sql_query(raw_sql).ok
          /\ sql_query = Some(clean_sql_query(raw_sql).text)
          /\ execute_calls[i] = sql_query[1]
    /\ ~clean_sql_query(raw_sql).ok =>
          /\ execute_calls = <<>>
          /\ pc \in {"Sanitizing", "Raised"}
    /\ raised # None => execute_calls = <<>>

\* C2 witness: execute was called with the sanitizer's text, which differs from
\* the text the model returned (fences and semicolon removed).
C2_Witness ==
    /\ Len(execute_calls) = 1
    /\ execute_calls[1] # raw_sql
    /\ StartsWith(raw_sql, Fence)
    /\ execute_calls[1] = sql_query[1]

C4_RejectsIffKeywordAndFirstTokenNotSelect ==
    pc = "returned" =>
        LET upper == Upper(CleanText(raw_sql))
            unsafe == HasKeyword(upper) /\ FirstToken(upper) # KwSelect
        IN /\ unsafe <=> raised # None
           /\ ~unsafe => sql_query = Some(CleanText(raw_sql))

\* C4 (amended): sanitize fails, naming a restricted keyword contained in the
\* text, exactly when the cleaned, uppercased text contains a restricted keyword
\* and does not start with the characters SELECT; otherwise it returns the
\* cleaned text.  Every text containing DROP TABLE x whose cleaned form does
\* not start with SELECT is rejected, and SELECT * FROM x WHERE note = 'DROP'
\* is accepted.
C4_RejectsIffKeywordAndNoSelectPrefix ==
    /\ pc = "returned" =>
        LET upper == Upper(CleanText(raw_sql))
            unsafe == HasKeyword(upper) /\ ~StartsWith(upper, KwSelect)
        IN /\ unsafe <=> raised # None
           /\ unsafe => sql_query = None
           /\ unsafe => \E k \in DOMAIN dangerous_keywords :
                           /\ Contains(upper, dangerous_keywords[k])
                           /\ raised = Some(DangerMessage(dangerous_keywords[k]))
           /\ ~unsafe => sql_query = Some(CleanText(raw_sql))
           /\ (Contains(raw_sql, ExampleDropTable) /\ ~StartsWith(upper, KwSelect))
                => raised # None
    /\ clean_sql_query(ExampleSelectDropLiteral) =
          [ok |-> TRUE, text |-> ExampleSelectDropLiteral, keyword |-> <<>>]

\* C4 witness: a text with a restricted keyword whose first token is SELECTED,
\* not SELECT, has been accepted.
C4_Witness ==
    /\ pc = "returned"
    /\ sql_query # None
    /\ HasKeyword(Upper(sql_query[1]))
    /\ FirstToken(Upper(sql_query[1])) # KwSelect

\* C5: when the model call fails during SQL synthesis or the sanitizer rejects
\* the generated SQL (the run ends without any execute), the run ends with the
\* ErrorFallback Response: result null, sql null, no visualization, a narrative
\* that explains the failure and shows the first 3 rows of the first dataset
\* when there is one.
C5_SynthesisFailureGivesErrorFallback ==
    (Finished /\ execute_calls = <<>>) =>
        /\ response # None
        /\ \E err \in ModelErrors \cup
                      {DangerMessage(dangerous_keywords[k]) : k \in DOMAIN dangerous_keywords} :
              IsErrorFallback(response[1], err)

\* C6: when execute fails, execute is not called again and no further model
\* call is made; the Response returned is the ErrorFallback one: result null,
\* sql null, no visualization, a narrative containing the error message, and a
\* sample of the first dataset exactly when a dataset exists.
C6_ExecuteFailureGivesErrorFallback ==
    (error \in ExecErrors) =>
        /\ pc \in {"ErrorFallback", "Done"}
        /\ Len(execute_calls) = 1
        /\ model_calls = <<"sql">>
        /\ raised = None
        /\ pc = "Done" => response # None /\ IsErrorFallback(response[1], error)

\* C6 witness: execute failed, the first dataset has more than 3 rows, and the
\* Response was returned.
C6_Witness ==
    /\ pc = "Done"
    /\ error \in ExecErrors
    /\ processed_data # <<>>
    /\ Len(processed_data[1].dataframe) > 3
    /\ response # None

\* C7: every Response returned has a non-empty narrative, whatever text the
\* model returned for the narration.
C7_NarrativeNeverEmpty ==
    response # None => response[1].response # <<>>

\* C8: classify returns the first intent, in the order count, average, max,
\* min, sum, distribution, correlation, filter, group, trend, whose pattern
\* matches the question case-insensitively; a question matching several
\* patterns gets the earliest of them.
C8_FirstMatchingIntentWins ==
    pc = "returned" =>
        LET matching == {k \in DOMAIN RuleOrder : MatchesIntent(RuleOrder[k], question)}
        IN /\ \A k \in matching :
                (\A j \in matching : k <= j) => query_type = RuleOrder[k]
           /\ \A k \in matching :
                \E j \in matching : j <= k /\ query_type = RuleOrder[j]
           /\ ({1, 5} \subseteq matching) => query_type = "count"

\* C8 witness: a question with a capital letter that matches both the count and
\* the sum pattern has been classified.
C8_Witness ==
    /\ pc = "returned"
    /\ question # Lower(question)
    /\ MatchesIntent("count", question)
    /\ MatchesIntent("sum", question)
    /\ re_search({<<"s","u","m">>}, Lower(question))

\* C9: classify returns, for every question, one of the eleven intents, and
\* returns general exactly when no rule's pattern matches; it changes nothing
\* else.
C9_ClassifyTotal ==
    pc = "returned" =>
        LET matching == {k \in DOMAIN RuleOrder : MatchesIntent(RuleOrder[k], question)}
        IN /\ query_type \in Intents
           /\ query_type = "general" <=> matching = {}
           /\ response = None /\ raised = None /\ model_calls = <<>>
           /\ execute_calls = <<>>

\* C9 witness: a question that contains the letters of a keyword but matches no
\* pattern (no word boundary) was classified general.
C9_Witness ==
    /\ pc = "returned"
    /\ query_type = "general"
    /\ Contains(Lower(question), <<"t","o","t","a","l">>)

\* C10: the intent field of every Response, the error-fallback one included,
\* is one of the eleven intents and equals classify(question).
C10_ResponseIntentIsClassifiedIntent ==
    response # None =>
        /\ response[1].type \in Intents
        /\ response[1].type = classify_query(question)

(* C11: when the executed query returned zero rows, narration gives its      *)
(* fixed empty-result message without calling the model: the only model call *)
(* of the run is the one made for SQL synthesis, whether the model works or  *)
(* not.                                                                      *)
C11_EmptyResultNarratedWithoutModelCall ==
    (results # None /\ results[1].rows = 0) =>
        /\ model_calls = <<"sql">>
        /\ pc \in {"Narrating", "Done"}
        /\ pc = "Done" =>
              /\ response # None
              /\ response[1].response = EmptyResultMessage
              /\ response[1].data = results

C11_Witness ==
    /\ pc = "Done"
    /\ results # None /\ results[1].rows = 0
    /\ model_calls = <<"sql">> /\ model_outcomes = <<"ok">>
    /\ response # None /\ response[1].response = EmptyResultMessage

(* C12 as stated: for a result with zero rows the narrative is exactly the   *)
(* text "No data found for this query".                                      *)
C12_EmptyNarrativeIsNoDataFound ==
    (pc = "Done" /\ results # None /\ results[1].rows = 0) =>
        response[1].response = <<"No data found for this query">>

(* C12 amended: for a result with zero rows the narrative is exactly the     *)
(* fixed text "I couldn't find any data that matches your query. Please try  *)
(* rephrasing your question or check if the data exists."                    *)
C12_EmptyNarrativeIsCouldNotFindAnyData ==
    (pc = "Done" /\ results # None /\ results[1].rows = 0) =>
        response[1].response =
            <<"I couldn't find any data that matches your query. Please try rephrasing your question or check if the data exists.">>

C12_Witness ==
    /\ pc = "Done"
    /\ response # None
    /\ response[1].data # None /\ response[1].data[1].rows = 0
    /\ response[1].response # <<"No data found for this query">>

(* C13: when execute returned a non-empty result and the model call made for *)
(* narration fails, the run does not take the error fallback: it ends with   *)
(* the normal Response, which keeps the result, the SQL that was executed    *)
(* and the classified intent, and whose narrative is the templated summary   *)
(* computed from the result alone.                                           *)
C13_NarrationFailureKeepsNormalResponse ==
    (Len(model_outcomes) = 2 /\ model_outcomes[2] = "failed") =>
        /\ model_calls = <<"sql", "narrate">>
        /\ pc = "Done"
        /\ error = <<>>
        /\ results # None /\ results[1].rows > 0
        /\ response # None
        /\ response[1].data = results
        /\ response[1].sql_query = Some(execute_calls[1])
        /\ response[1].type = classify_query(question)
        /\ response[1].response = NarrationFallback(results[1])
        /\ response[1] # handle_query_error(question, error, processed_data)

C13_Witness ==
    /\ pc = "Done"
    /\ model_outcomes = <<"ok", "failed">>
    /\ results # None /\ results[1].rows = 2
    /\ response # None /\ response[1].data = results
    /\ response[1].type = "trend"

(* C14: should_visualize(intent, result) is true exactly when the result has *)
(* more than one row and the intent is one of distribution, correlation,     *)
(* trend, group; it is false for a null result, an empty result, a one-row   *)
(* result with any intent, and any other intent with any number of rows.     *)
C14_VisualizeIffManyRowsAndChartIntent ==
    pc = "returned" =>
        /\ returned[1] \in BOOLEAN
        /\ returned[1] =
              (/\ results # None
               /\ results[1].rows > 1
               /\ query_type \in {"distribution", "correlation", "trend", "group"})
        /\ results = None => returned[1] = FALSE
        /\ (results # None /\ results[1].rows <= 1) => returned[1] = FALSE
        /\ query_type \in {"count", "average", "max", "min", "sum", "filter",
                           "general"} => returned[1] = FALSE

C14_Witness ==
    /\ pc = "returned"
    /\ query_type = "trend"
    /\ results # None /\ results[1].rows = 5
    /\ returned = Some(TRUE)

(* C15: no stage is retried within one invocation: at any time at most one   *)
(* model call has been made for SQL synthesis, at most one execute has been  *)
(* issued and at most one model call has been made for narration; once SQL   *)
(* synthesis is over exactly one synthesis call has been made, whatever the  *)
(* outcomes of the calls.                                                    *)
C15_NoStageRetried ==
    LET calls(kind) == {i \in DOMAIN model_calls : model_calls[i] = kind}
    IN /\ Cardinality(calls("sql")) <= 1
       /\ Cardinality(calls("narrate")) <= 1
       /\ Len(execute_calls) <= 1
       /\ pc \notin {"Classifying", "BuildingContext", "Synthesizing"} =>
             Cardinality(calls("sql")) = 1
       /\ Len(model_outcomes) = Len(model_calls)

C15_Witness ==
    /\ pc = "Done"
    /\ error \in ExecErrors
    /\ model_calls = <<"sql">>
    /\ Len(execute_calls) = 1
    /\ response # None /\ response[1].type = "error"

(* C16: every question the user submits on the chat page, typed or clicked   *)
(* as a quick question, is handed to the pipeline at most once: no question  *)
(* is invoked more often than it was submitted, a handled quick question is  *)
(* gone from the session state and later runs of the script do not process   *)
(* it again.                                                                 *)
C16_AtMostOneInvocationPerQuestion ==
    LET count(log, q) == Cardinality({i \in DOMAIN log : log[i] = q})
    IN \A q \in Range(invocations) :
            count(invocations, q) <= count(submitted, q)

(* C17: every invocation of the pipeline terminates with a Response: each   *)
(* external call returning or failing, the run goes on until it is Done,     *)
(* through Narrating or through ErrorFallback.  The stages run one after the *)
(* other without a loop, so this says that a run in which no stage is left   *)
(* to run is Done and has returned a Response.                               *)
C17_RunEndsDoneWithResponse ==
    LET stage_left == pc \in {"Classifying", "BuildingContext", "Synthesizing",
                              "Sanitizing", "Executing", "Narrating",
                              "ErrorFallback"}
    IN ~stage_left => (pc = "Done" /\ response # None)

(* C18: the page never hands the pipeline a question outside 1..2000         *)
(* characters: an empty question or one longer than 2000 characters is       *)
(* rejected before process_natural_language_query is called.                 *)
C18_InvokedQuestionsWithinLength ==
    \A i \in DOMAIN invocations :
        invocations[i].len >= 1 /\ invocations[i].len <= 2000

(* C19: the pipeline only reads its datasets: whatever SQL the model         *)
(* generated and whichever path the invocation takes, no step changes the    *)
(* in-memory datasets passed in or the content of the dataset tables held by *)
(* the storage layer.                                                        *)
C19_DatasetsOnlyRead ==
    [][processed_data' = processed_data /\ storage' = storage]_vars

C21_ErrorFallbackOnlyBeforeNarrating ==
    [][pc' = "ErrorFallback" =>
          (pc \in {"Synthesizing", "Sanitizing", "Executing"} /\ results' = None)]_vars

(* C22: every text sanitize returns has no code-fence marker, no leading or  *)
(* trailing whitespace and no trailing semicolon, whatever raw text the      *)
(* model returned, also when the semicolon of the statement is followed by   *)
(* whitespace, a newline or a closing code fence.                            *)
C22_CleanedTextHasNoFenceSpaceOrSemicolon ==
    (pc = "returned" /\ sql_query # None) =>
        LET text == sql_query[1]
        IN /\ ~Contains(text, Fence)
           /\ text # <<>> => (text[1] \notin Whitespace
                              /\ text[Len(text)] \notin Whitespace)
           /\ text # <<>> => text[Len(text)] # ";"

(* C23: TRUNCATE is one of the restricted keywords sanitize scans for: a     *)
(* statement that contains TRUNCATE and does not begin with SELECT is        *)
(* rejected and not returned for execution, and the rejection names TRUNCATE *)
(* when the statement holds no other restricted keyword.                     *)
C23_TruncateRejected ==
    pc = "returned" =>
        LET upper == Upper(CleanText(raw_sql))
            truncate == <<"T","R","U","N","C","A","T","E">>
        IN (Contains(upper, truncate) /\ ~StartsWith(upper, KwSelect)) =>
              /\ sql_query = None
              /\ raised # None
              /\ ~HasKeyword(upper) => raised = Some(DangerMessage(truncate))

(* C24 as stated: when the model fails during narration the narrative is the *)
(* template: "The answer is: {value}" for a result of one row and one        *)
(* column, otherwise "Found {n} records", extended with the mean of the      *)
(* numeric column when exactly one numeric column is present in the result.  *)
C24_FallbackNarrativeIsTemplate ==
    (Len(model_outcomes) = 2 /\ model_outcomes[2] = "failed") =>
        LET df == results[1]
        IN response[1].response =
              IF df.rows = 1 /\ df.cols = 1
              THEN <<"The answer is: ", "<value>">>
              ELSE <<"Found ", Str(df.rows), " records">> \o
                   (IF df.numeric = 1
                    THEN <<" with an average ", "<column>", " of ", "<mean>">>
                    ELSE <<>>)

(* C24 amended: when the model fails during narration the narrative is       *)
(* "Based on your query, I found {n} records. Here's what the data shows:"   *)
(* and a blank line, followed by the template: "The answer is: {value}" for  *)
(* a result of one row and one column, otherwise "Found {n} records",        *)
(* extended with " with an average {column} of {mean}" exactly when the      *)
(* result has a single column and that column is numeric.                    *)
C24_FallbackNarrativeIsPrefixedTemplate ==
    (Len(model_outcomes) = 2 /\ model_outcomes[2] = "failed") =>
        LET df == results[1]
            n == Str(df.rows)
        IN response[1].response =
              <<"Based on your query, I found ", n,
                " records. Here's what the data shows:\n\n">> \o
              (IF df.rows = 1 /\ df.cols = 1
               THEN <<"The answer is: ", "<value>">>
               ELSE <<"Found ", n, " records">> \o
                    (IF df.cols = 1 /\ df.numeric = 1
                     THEN <<" with an average ", "<column>", " of ", "<mean>">>
                     ELSE <<>>))

C24_Witness ==
    /\ pc = "Done"
    /\ model_outcomes = <<"ok", "failed">>
    /\ results # None
    /\ results[1].rows = 2 /\ results[1].cols = 2 /\ results[1].numeric = 1
    /\ response # None
    /\ ~Contains(response[1].response, <<" with an average ">>)
    /\ Contains(response[1].response, <<"Found ", "2", " records">>)

(* C25: every table described in the schema context of a query exists in     *)
(* the storage layer and holds the dataset described: for every dataset      *)
(* handle_file_upload has put into processed_data, the table named by its    *)
(* table field is stored and contains that dataset's dataframe, also when    *)
(* store_dataframe failed or two uploaded files have the same table name.    *)
C25_ProcessedDataIsStored ==
    \A k \in DOMAIN processed_data :
        /\ processed_data[k].table \in DOMAIN storage
        /\ storage[processed_data[k].table] = processed_data[k].dataframe

(* C26: on the normal path the fields of the Response agree with each other: *)
(* sql_query is the sanitized text, the one text handed to execute; data is  *)
(* the frame execute returned for it; suggest_visualization is               *)
(* should_visualize of the Response's own type and data.                     *)
C26_NormalResponseFieldsConsistent ==
    (pc = "Done" /\ response # None /\ response[1].type # "error") =>
        /\ Len(execute_calls) = 1
        /\ execute_calls[1] = clean_sql_query(raw_sql).text
        /\ response[1].sql_query = Some(execute_calls[1])
        /\ results # None
        /\ response[1].data = results
        /\ response[1].suggest_visualization =
              should_visualize(response[1].type, response[1].data)

C26_Witness ==
    /\ pc = "Done"
    /\ response # None /\ response[1].type = "trend"
    /\ StartsWith(raw_sql, Fence)
    /\ response[1].sql_query # Some(raw_sql)
    /\ response[1].data # None /\ response[1].data[1].rows = 2
    /\ response[1].suggest_visualization

(* C27: each call of execute_query calls log_query once: when the call has   *)
(* ended there are as many log_query calls as execute_query calls, each for  *)
(* the statement of its call; the last one has success true and no error     *)
(* message when a frame was returned, and success false with the message of  *)
(* the exception when the call raised; the call returns or raises, whether   *)
(* or not the row was written.                                               *)
C27_OneLogAttemptPerCall ==
    (pc = "returned" /\ execute_calls # <<>>) =>
        /\ (returned # None) # (raised # None)
        /\ Len(log_calls) = Len(execute_calls)
        /\ \A k \in DOMAIN log_calls : log_calls[k].query = execute_calls[k]
        /\ LET l == log_calls[Len(log_calls)]
           IN /\ returned # None => (l.success /\ l.error_message = None)
              /\ raised # None => (~l.success /\ l.error_message = raised)

(* C28: each call of handle_user_input appends two messages, the user        *)
(* message and then one assistant message, whether the pipeline returned a   *)
(* Response or raised: the chat history is twice as long as the number of    *)
(* handled inputs, its odd entries are the user messages of the handled      *)
(* inputs in their order and its even entries are assistant messages.        *)
C28_TwoMessagesPerHandledInput ==
    LET messages == session_state.messages
    IN /\ Len(messages) = 2 * Len(invocations)
       /\ \A k \in DOMAIN invocations :
            /\ messages[2 * k - 1] = UserMessage(invocations[k])
            /\ messages[2 * k].role = "assistant"
       /\ \A i \in DOMAIN messages :
            messages[i].role = IF i % 2 = 1 THEN "user" ELSE "assistant"

C28_Witness ==
    LET messages == session_state.messages
    IN /\ Len(invocations) = 2
       /\ Len(messages) = 4
       /\ messages[2].error
       /\ ~messages[4].error /\ messages[4].results # None

(* C29: an entry of the session query history with success true belongs to   *)
(* a question answered on the normal path: whenever handle_user_input        *)
(* appends such an entry, the assistant message it appended for the same     *)
(* question is not the error-fallback Response (type error, no result) and   *)
(* not the message of an exception.                                          *)
C29_SuccessOnlyForNormalPath ==
    [][\A j \in DOMAIN session_state'.query_history :
          (j \notin DOMAIN session_state.query_history
             /\ session_state'.query_history[j].success) =>
          LET messages == session_state'.messages
              answer == messages[Len(messages)]
          IN /\ answer.role = "assistant"
             /\ ~answer.error
             /\ answer.query_type # Some("error")
             /\ answer.results # None]_vars

=============================================================================
